---- MODULE Spec2Model ----
(***************************************************************************)
(* The IR layer of vm/students/2014/zhirkov/vm/ir/ir.h: basic blocks, the  *)
(* jumps that end them, the predecessor index the linkage operations keep, *)
(* Function::argument and the ownership of functions, blocks and jumps.    *)
(*                                                                         *)
(* Objects are values of the state: a Block is an index of Blocks with its *)
(* fields in the functions transition, predecessors, contents; a Jump is   *)
(* the record its owning block points at, carrying the number of times it  *)
(* was deleted, so a block whose _transition is a deleted Jump is a block  *)
(* that holds a dangling pointer.                                          *)
(*                                                                         *)
(* Reading a deleted Jump is undefined behaviour: the step that does it    *)
(* yields any value the read can give, or stops the program ("crashed").   *)
(* A run that went on after it ("ub") makes no further call on a block;    *)
(* only the release of the program container follows.                      *)
(*                                                                         *)
(* Block::relink and Function::~Function are declared in ir.h and defined  *)
(* elsewhere; they are modelled from the specification of the IR.          *)
(***************************************************************************)
EXTENDS Integers, Sequences, FiniteSets

\* Bounds of the model.
NBlocks == 3
\* Functions of the program; function f was constructed with block f as entry.
NFuncs == 2
\* Calls made on blocks in one run.
MaxOps == 2
\* Statements appended to one block.
MaxStmts == 1
\* Length of SimpleIr::functions.
MaxRegistered == 2
\* Length of each of the two parameter lists, and the ids put in them.
MaxParams == 2
MaxVarId == 2
\* Largest index argument() is asked for.
MaxIdx == 5

Blocks == 1..NBlocks
Funcs == 1..NFuncs
VarIds == 1..MaxVarId

VARIABLES
    transition,       \* Block::_transition of each block: NULL or the Jump
    predecessors,     \* Block::predecessors of each block
    contents,         \* Block::contents of each block: the number of statements
    blockReleased,    \* how many times each Block was deleted
    functions,        \* SimpleIr::functions
    funcReleased,     \* how many times each Function was deleted
    parametersIds,    \* Function::parametersIds
    refParameterIds,  \* Function::refParameterIds
    nops,             \* calls made on blocks so far
    pc,               \* "run", "ub" (a deleted Jump was read), "torn", "crashed"
    last              \* the call that was made last, with its arguments and result

vars == <<transition, predecessors, contents, blockReleased, functions,
          funcReleased, parametersIds, refParameterIds, nops, pc, last>>

graphVars == <<transition, predecessors, contents, blockReleased>>
ownerVars == <<functions, funcReleased>>
argVars == <<parametersIds, refParameterIds>>

----------------------------------------------------------------------------
\* Jump objects.

NULL == [kind |-> "NULL"]

JumpAlways(dest) == [kind |-> "JumpAlways", destination |-> dest, released |-> 0]

JumpCond(yes, no) == [kind |-> "JumpCond", yes |-> yes, no |-> no, released |-> 0]

isJumpAlways(jmp) == jmp.kind = "JumpAlways"

\* The blocks a Jump names.
Destinations(jmp) ==
    IF jmp = NULL THEN {}
    ELSE IF isJumpAlways(jmp) THEN {jmp.destination}
    ELSE {jmp.yes, jmp.no}

\* delete jmp: ~JumpAlways and ~JumpCond release the Jump (and a JumpCond's
\* condition), never a Block.
DeleteJump(jmp) == IF jmp = NULL THEN NULL ELSE [jmp EXCEPT !.released = @ + 1]

----------------------------------------------------------------------------
\* Block.

getTransition(b) == transition[b]

\* isLastBlock with the comparison inverted.
isLastBlock_bug(b) == getTransition(b) # NULL

isLastBlock(b) == getTransition(b) = NULL

addPredecessor(preds, b, block) == [preds EXCEPT ![b] = @ \cup {block}]

\* removePredecessor that erases nothing.
removePredecessor_bug(preds, b, block) == preds

removePredecessor(preds, b, block) == [preds EXCEPT ![b] = @ \ {block}]

\* isEmpty(): && evaluates left to right and stops at the first false operand;
\* calling isJumpAlways() through a null _transition is a fault. The result is
\* "true", "false" or "fault".
isEmpty(b) ==
    IF contents[b] = 0
    THEN IF ~isLastBlock(b)
         THEN IF getTransition(b) = NULL THEN "fault"
              ELSE IF isJumpAlways(getTransition(b)) THEN "true" ELSE "false"
         ELSE "false"
    ELSE "false"

isEntry(b) == predecessors[b] = {}

alive(b) == blockReleased[b] = 0

Running == pc = "run" /\ nops < MaxOps

Bump == nops' = nops + 1

\* The JumpCond objects a caller constructs and hands to link or setTransition.
\* A Jump belongs to one block: a caller passes a Jump it has just constructed
\* or, to link, the one the block already has.
NewJumpConds == {JumpCond(y, n) : y \in {b \in Blocks : alive(b)}, n \in {b \in Blocks : alive(b)}}

NewJumpAlways == {JumpAlways(d) : d \in {b \in Blocks : alive(b)}}

\* void setTransition(Jump *jmp): the prior Jump is not deleted.
setTransition(p, jmp) ==
    /\ Running /\ alive(p)
    /\ jmp \in {NULL} \cup NewJumpAlways \cup NewJumpConds
    /\ transition' = [transition EXCEPT ![p] = jmp]
    /\ predecessors' =
         IF jmp = NULL THEN predecessors
         ELSE IF isJumpAlways(jmp) THEN addPredecessor(predecessors, jmp.destination, p)
         ELSE addPredecessor(addPredecessor(predecessors, jmp.yes, p), jmp.no, p)
    /\ last' = [op |-> "setTransition", p |-> p, jmp |-> jmp, deleted |-> NULL]
    /\ Bump
    /\ UNCHANGED <<contents, blockReleased, ownerVars, argVars, pc>>

\* link(Block *next) without the delete of the prior Jump.
link_leak(p, next) ==
    /\ Running /\ alive(p) /\ alive(next)
    /\ transition' = [transition EXCEPT ![p] = JumpAlways(next)]
    /\ predecessors' = addPredecessor(predecessors, next, p)
    /\ last' = [op |-> "link", p |-> p, next |-> next, deleted |-> NULL]
    /\ Bump
    /\ UNCHANGED <<contents, blockReleased, ownerVars, argVars, pc>>

\* void link(Block *next)
link(p, next) ==
    /\ Running /\ alive(p) /\ alive(next)
    /\ transition' = [transition EXCEPT ![p] = JumpAlways(next)]
    /\ predecessors' = addPredecessor(predecessors, next, p)
    /\ last' = [op |-> "link", p |-> p, next |-> next,
                deleted |-> DeleteJump(transition[p])]
    /\ Bump
    /\ UNCHANGED <<contents, blockReleased, ownerVars, argVars, pc>>

\* void link(JumpCond *cond). own says that cond is the object p's _transition
\* already points at: the delete then releases cond itself, _transition is
\* left pointing at the deleted object, and cond->yes, cond->no read deleted
\* memory: they yield any blocks, or the program stops.
linkCond(p, cond, own) ==
    /\ Running /\ alive(p)
    /\ IF own THEN cond = transition[p] /\ cond.kind = "JumpCond" /\ cond.released = 0
              ELSE cond \in NewJumpConds
    /\ LET deleted == DeleteJump(transition[p])
           installed == IF own THEN deleted ELSE cond
       IN /\ transition' = [transition EXCEPT ![p] = installed]
          /\ last' = [op |-> "linkCond", p |-> p, cond |-> cond, own |-> own,
                      deleted |-> deleted]
          /\ \/ /\ \E yes \in Blocks, no \in Blocks :
                     /\ ~own => yes = cond.yes /\ no = cond.no
                     /\ predecessors' =
                          addPredecessor(addPredecessor(predecessors, yes, p), no, p)
                /\ pc' = IF own THEN "ub" ELSE pc
             \/ /\ own
                /\ predecessors' = predecessors
                /\ pc' = "crashed"
    /\ Bump
    /\ UNCHANGED <<contents, blockReleased, ownerVars, argVars>>

\* The Jump relink builds in place of jmp: every edge to oldChild now goes to
\* newChild.
Redirect(jmp, oldChild, newChild) ==
    IF isJumpAlways(jmp) THEN JumpAlways(newChild)
    ELSE JumpCond(IF jmp.yes = oldChild THEN newChild ELSE jmp.yes,
                  IF jmp.no = oldChild THEN newChild ELSE jmp.no)

\* relink that edits the predecessor sets before it looks for the edge.
relink_partial(p, oldChild, newChild) ==
    /\ Running /\ alive(p) /\ alive(oldChild) /\ alive(newChild)
    /\ predecessors' =
         addPredecessor(removePredecessor(predecessors, oldChild, p), newChild, p)
    /\ IF oldChild \in Destinations(transition[p])
       THEN /\ transition' = [transition EXCEPT ![p] = Redirect(@, oldChild, newChild)]
            /\ last' = [op |-> "relink", p |-> p, oldChild |-> oldChild,
                        newChild |-> newChild, ok |-> TRUE,
                        deleted |-> DeleteJump(transition[p])]
       ELSE /\ transition' = transition
            /\ last' = [op |-> "relink", p |-> p, oldChild |-> oldChild,
                        newChild |-> newChild, ok |-> FALSE, deleted |-> NULL]
    /\ Bump
    /\ UNCHANGED <<contents, blockReleased, ownerVars, argVars, pc>>

\* bool relink(Block *oldChild, Block *newChild): false and no change when
\* oldChild is no destination of the Jump (or there is no Jump); otherwise the
\* Jump is replaced by the redirected one, this block leaves
\* oldChild.predecessors and enters newChild.predecessors.
relink(p, oldChild, newChild) ==
    /\ Running /\ alive(p) /\ alive(oldChild) /\ alive(newChild)
    /\ IF oldChild \in Destinations(transition[p])
       THEN /\ transition' = [transition EXCEPT ![p] = Redirect(@, oldChild, newChild)]
            /\ predecessors' =
                 addPredecessor(removePredecessor(predecessors, oldChild, p), newChild, p)
            /\ last' = [op |-> "relink", p |-> p, oldChild |-> oldChild,
                        newChild |-> newChild, ok |-> TRUE,
                        deleted |-> DeleteJump(transition[p])]
       ELSE /\ UNCHANGED <<transition, predecessors>>
            /\ last' = [op |-> "relink", p |-> p, oldChild |-> oldChild,
                        newChild |-> newChild, ok |-> FALSE, deleted |-> NULL]
    /\ Bump
    /\ UNCHANGED <<contents, blockReleased, ownerVars, argVars, pc>>

\* contents.push_back(new statement)
appendStatement(b) ==
    /\ Running /\ alive(b)
    /\ contents[b] < MaxStmts
    /\ contents' = [contents EXCEPT ![b] = @ + 1]
    /\ last' = [op |-> "append", p |-> b]
    /\ Bump
    /\ UNCHANGED <<transition, predecessors, blockReleased, ownerVars, argVars, pc>>

\* A pass asks b.isEmpty().
CallIsEmpty(b) ==
    /\ Running /\ alive(b)
    /\ last' = [op |-> "isEmpty", p |-> b, result |-> isEmpty(b)]
    /\ Bump
    /\ UNCHANGED <<graphVars, ownerVars, argVars, pc>>

\* ~Block on every block of S: the statements and the Jump are deleted; no
\* predecessor set is touched.
ReleaseBlocks(st, S) ==
    [st EXCEPT !.br = [b \in Blocks |-> IF b \in S THEN st.br[b] + 1 ELSE st.br[b]],
               !.tr = [b \in Blocks |-> IF b \in S THEN DeleteJump(st.tr[b]) ELSE st.tr[b]]]

Heap == [fr |-> funcReleased, br |-> blockReleased, tr |-> transition]

entry(f) == f

\* delete d, by a pass that removes a block no jump of a live block names any
\* more and that is no Function's entry.
DestroyBlock(d) ==
    /\ Running /\ alive(d)
    /\ d \notin {entry(f) : f \in Funcs}
    /\ \A q \in Blocks \ {d} : alive(q) => d \notin Destinations(transition[q])
    /\ LET st == ReleaseBlocks(Heap, {d})
       IN /\ transition' = st.tr
          /\ blockReleased' = st.br
    /\ last' = [op |-> "~Block", p |-> d]
    /\ Bump
    /\ UNCHANGED <<predecessors, contents, ownerVars, argVars, pc>>

----------------------------------------------------------------------------
\* Function::argument.

arguments == Len(parametersIds) + Len(refParameterIds)

\* argument that searches the reference parameters first.
argument_swapped(idx) ==
    IF idx < Len(refParameterIds)
    THEN [status |-> "return", value |-> refParameterIds[idx + 1]]
    ELSE LET idx2 == idx - Len(refParameterIds)
         IN IF idx2 < Len(parametersIds)
            THEN [status |-> "return", value |-> parametersIds[idx2 + 1]]
            ELSE [status |-> "out_of_range", total |-> arguments, index |-> idx2]

\* VarId argument(size_t idx) const. idx is at least parametersIds.size() when
\* it is reduced, so the size_t subtraction does not wrap. Sequences count
\* from 1, vectors from 0.
argument(idx) ==
    IF idx < Len(parametersIds)
    THEN [status |-> "return", value |-> parametersIds[idx + 1]]
    ELSE LET idx2 == idx - Len(parametersIds)
         IN IF idx2 < Len(refParameterIds)
            THEN [status |-> "return", value |-> refParameterIds[idx2 + 1]]
            ELSE [status |-> "out_of_range", total |-> arguments, index |-> idx2]

CallArgument(idx) ==
    /\ pc = "run"
    /\ last' = [op |-> "argument", idx |-> idx, result |-> argument(idx)]
    /\ UNCHANGED <<graphVars, ownerVars, argVars, nops, pc>>

\* parametersIds.push_back(id), by the producer that declares the function.
addParameter(id) ==
    /\ pc = "run"
    /\ Len(parametersIds) < MaxParams
    /\ parametersIds' = Append(parametersIds, id)
    /\ last' = [op |-> "addParameter", id |-> id]
    /\ UNCHANGED <<graphVars, ownerVars, refParameterIds, nops, pc>>

\* refParameterIds.push_back(id)
addRefParameter(id) ==
    /\ pc = "run"
    /\ Len(refParameterIds) < MaxParams
    /\ refParameterIds' = Append(refParameterIds, id)
    /\ last' = [op |-> "addRefParameter", id |-> id]
    /\ UNCHANGED <<graphVars, ownerVars, parametersIds, nops, pc>>

----------------------------------------------------------------------------
\* SimpleIr and the release of what it owns.

\* void addFunction(Function *rec)
addFunction(rec) ==
    /\ pc = "run"
    /\ Len(functions) < MaxRegistered
    /\ functions' = Append(functions, rec)
    /\ last' = [op |-> "addFunction", rec |-> rec]
    /\ UNCHANGED <<graphVars, funcReleased, argVars, nops, pc>>

RECURSIVE ReachFrom(_, _, _)
ReachFrom(tr, frontier, seen) ==
    IF frontier = {} THEN seen
    ELSE ReachFrom(tr,
                   UNION {Destinations(tr[b]) : b \in frontier} \ (seen \cup frontier),
                   seen \cup frontier)

\* The blocks reachable from block e along the jumps.
Reach(tr, e) == ReachFrom(tr, {e}, {})

\* Function::~Function: every block reachable from the entry is released once.
FunctionDtor(st, f) ==
    ReleaseBlocks([st EXCEPT !.fr[f] = @ + 1], Reach(st.tr, entry(f)))

\* ~Function on f would touch an object that was deleted before: f itself, a
\* block, or a Jump.
TouchesReleased(st, f) ==
    \/ st.fr[f] > 0
    \/ \E b \in Reach(st.tr, entry(f)) :
          st.br[b] > 0 \/ (st.tr[b] # NULL /\ st.tr[b].released > 0)

\* The heap after ~SimpleIr has deleted the first k elements of functions.
RECURSIVE TearDown(_)
TearDown(k) == IF k = 0 THEN Heap ELSE FunctionDtor(TearDown(k - 1), functions[k])

\* virtual ~SimpleIr(): for (auto f : functions) delete f. A delete that
\* touches a deleted object either goes on with what the memory still holds or
\* stops the program there.
DestroySimpleIr ==
    /\ pc \in {"run", "ub"}
    /\ \/ /\ LET st == TearDown(Len(functions))
             IN /\ funcReleased' = st.fr
                /\ blockReleased' = st.br
                /\ transition' = st.tr
          /\ pc' = "torn"
       \/ \E k \in 1..Len(functions) :
            /\ TouchesReleased(TearDown(k - 1), functions[k])
            /\ LET st == TearDown(k - 1)
               IN /\ funcReleased' = st.fr
                  /\ blockReleased' = st.br
                  /\ transition' = st.tr
            /\ pc' = "crashed"
    /\ last' = [op |-> "~SimpleIr"]
    /\ UNCHANGED <<predecessors, contents, functions, argVars, nops>>

----------------------------------------------------------------------------
\* The state after construction: blocks with no Jump, no statement and no
\* predecessor, an empty SimpleIr, a Function with no parameter.
Init ==
    /\ transition = [b \in Blocks |-> NULL]
    /\ predecessors = [b \in Blocks |-> {}]
    /\ contents = [b \in Blocks |-> 0]
    /\ blockReleased = [b \in Blocks |-> 0]
    /\ functions = <<>>
    /\ funcReleased = [f \in Funcs |-> 0]
    /\ parametersIds = <<>>
    /\ refParameterIds = <<>>
    /\ nops = 0
    /\ pc = "run"
    /\ last = [op |-> "new"]

Link == \E p \in Blocks, next \in Blocks : link(p, next)

LinkCond ==
    \E p \in Blocks, own \in BOOLEAN :
        \E cond \in IF own THEN {transition[p]} ELSE NewJumpConds : linkCond(p, cond, own)

Relink == \E p \in Blocks, oldChild \in Blocks, newChild \in Blocks : relink(p, oldChild, newChild)

SetTransition ==
    \E p \in Blocks : \E jmp \in {NULL} \cup NewJumpAlways \cup NewJumpConds : setTransition(p, jmp)

AppendStatement == \E b \in Blocks : appendStatement(b)

IsEmpty == \E b \in Blocks : CallIsEmpty(b)

DeleteBlock == \E d \in Blocks : DestroyBlock(d)

AddFunction == \E rec \in Funcs : addFunction(rec)

AddParameter == \E id \in VarIds : addParameter(id)

AddRefParameter == \E id \in VarIds : addRefParameter(id)

Argument == \E idx \in 0..MaxIdx : CallArgument(idx)

\* The block graph under the linkage operations, the queries and the removal
\* of blocks that passes use.
Next ==
    \/ Link
    \/ LinkCond
    \/ Relink
    \/ AppendStatement
    \/ IsEmpty
    \/ DeleteBlock

Spec == Init /\ [][Next]_vars

\* The block graph under the three linkage operations alone.
NextLink ==
    \/ Link
    \/ LinkCond
    \/ Relink

SpecLink == Init /\ [][NextLink]_vars

\* A Function's parameter lists and argument().
NextArgument ==
    \/ AddParameter
    \/ AddRefParameter
    \/ Argument

SpecArgument == Init /\ [][NextArgument]_vars

\* A program container: functions are registered, their blocks given jumps,
\* and the container is released.
NextOwnership ==
    \/ Link
    \/ LinkCond
    \/ SetTransition
    \/ AddFunction
    \/ DestroySimpleIr

SpecOwnership == Init /\ [][NextOwnership]_vars

----------------------------------------------------------------------------
\* Properties.

\* Whether Jump jmp names block b as a destination.
Names(jmp, b) ==
    \/ jmp.kind = "JumpAlways" /\ jmp.destination = b
    \/ jmp.kind = "JumpCond" /\ (jmp.yes = b \/ jmp.no = b)

\* C1: while the program runs, after any sequence of link(successor),
\* link(condition) and relink calls, P is in B.predecessors if and only if P's
\* current Jump names B.
PredecessorConsistency ==
    pc = "run" =>
        \A P \in Blocks, B \in Blocks :
            P \in predecessors[B] <=> Names(transition[P], B)

RelinkFailureLeavesGraph ==
    [][(last'.op = "relink" /\ ~Names(transition[last'.p], last'.oldChild)) =>
        /\ ~last'.ok
        /\ last'.deleted = NULL
        /\ transition' = transition
        /\ predecessors' = predecessors
        /\ contents' = contents
        /\ blockReleased' = blockReleased
      ]_vars

\* A relink failed on a block that has a predecessor entry in the graph and a
\* Jump naming other blocks than oldChild.
RelinkFailed ==
    /\ last.op = "relink" /\ ~last.ok
    /\ transition[last.p] # NULL
    /\ ~Names(transition[last.p], last.oldChild)
    /\ \E b \in Blocks : last.p \in predecessors[b]

\* C4: argument(i) returns params[i] for i < |params|, refParams[i - |params|]
\* for |params| <= i < |params| + |refParams|, fails with out_of_range for
\* every larger i, and leaves both lists as they were.
ArgumentMapping ==
    [][last'.op = "argument" =>
        LET i == last'.idx
            np == Len(parametersIds)
            nr == Len(refParameterIds)
            r == last'.result
        IN /\ i < np => r.status = "return" /\ r.value = parametersIds[i + 1]
           /\ (np <= i /\ i < np + nr) =>
                r.status = "return" /\ r.value = refParameterIds[i - np + 1]
           /\ i >= np + nr => r.status = "out_of_range"
           /\ parametersIds' = parametersIds
           /\ refParameterIds' = refParameterIds
      ]_vars

\* With two ordinary parameters and one reference parameter of another id,
\* argument(2) returned the reference parameter.
ArgumentHitRefParameter ==
    /\ last.op = "argument" /\ last.idx = 2
    /\ Len(parametersIds) = 2 /\ Len(refParameterIds) = 1
    /\ refParameterIds[1] \notin {parametersIds[1], parametersIds[2]}
    /\ last.result.status = "return"
    /\ last.result.value = refParameterIds[1]

\* C5: the out_of_range error of argument(i) names i itself and the total
\* arity |params| + |refParams|.
ErrorNamesRequestedIndex ==
    (last.op = "argument" /\ last.result.status = "out_of_range") =>
        /\ last.result.index = last.idx
        /\ last.result.total = Len(parametersIds) + Len(refParameterIds)

\* C6: every isEmpty() call returns true exactly when the block has no
\* statement, has a Jump and that Jump is a JumpAlways (so false, not a
\* fault, on a block with no Jump); and appending a statement to a block on
\* which isEmpty() is true makes it false.
IsEmptyClassification ==
    [][/\ last'.op = "isEmpty" =>
            last'.result = IF /\ contents[last'.p] = 0
                              /\ transition[last'.p] # NULL
                              /\ transition[last'.p].kind = "JumpAlways"
                           THEN "true" ELSE "false"
       /\ \A b \in Blocks :
            (last'.op = "append" /\ last'.p = b /\ isEmpty(b) = "true") =>
                isEmpty(b)' = "false"
      ]_vars

\* isEmpty() returned true on a block with no statement and a JumpAlways to a
\* block with no Jump.
IsEmptyTrue ==
    /\ last.op = "isEmpty" /\ last.result = "true"
    /\ contents[last.p] = 0
    /\ transition[last.p].kind = "JumpAlways"
    /\ transition[transition[last.p].destination] = NULL

\* C7: after ~SimpleIr every registered Function and every block reachable
\* from the entry of a registered Function was released exactly once, and no
\* Function, Block, Jump or Statement was released twice (a block's
\* statements are released with the block).
TeardownCompleteness ==
    pc = "torn" =>
        /\ \A i \in 1..Len(functions) :
              /\ funcReleased[functions[i]] = 1
              /\ \A b \in Reach(transition, entry(functions[i])) : blockReleased[b] = 1
        /\ \A f \in Funcs : funcReleased[f] <= 1
        /\ \A b \in Blocks :
              /\ blockReleased[b] <= 1
              /\ transition[b] # NULL => transition[b].released <= 1

\* C8: link(successor) on P installs a JumpAlways to successor that was never
\* released, deletes the prior Jump exactly once (nothing when there was
\* none), releases no Block, puts P into successor.predecessors and keeps the
\* statements of every block and the Jump of every other block.
LinkSuccessorEffect ==
    [][last'.op = "link" =>
        LET P == last'.p
            s == last'.next
            was == transition[P]
        IN /\ transition'[P] = [kind |-> "JumpAlways", destination |-> s, released |-> 0]
           /\ was = NULL => last'.deleted = NULL
           /\ was # NULL => last'.deleted = [was EXCEPT !.released = was.released + 1]
           /\ blockReleased' = blockReleased
           /\ P \in predecessors'[s]
           /\ contents' = contents
           /\ \A q \in Blocks \ {P} : transition'[q] = transition[q]
      ]_vars

\* link(successor) replaced a conditional Jump, which was deleted once, and
\* the blocks it named are alive.
LinkReplacedConditional ==
    /\ last.op = "link"
    /\ last.deleted # NULL
    /\ last.deleted.kind = "JumpCond"
    /\ last.deleted.released = 1
    /\ alive(last.deleted.yes) /\ alive(last.deleted.no)
    /\ transition[last.p].kind = "JumpAlways"

\* C9: every element of the predecessors set of a live block is a live block.
NoDanglingPredecessor ==
    \A b \in Blocks : alive(b) => \A d \in predecessors[b] : alive(d)

\* C10: after link(condition) P's transition is the JumpCond passed in and
\* that object is not released; and no Jump a block points at was released
\* more than once.
LinkCondKeepsJumpLive ==
    /\ last.op = "linkCond" =>
          /\ transition[last.p].kind = "JumpCond"
          /\ transition[last.p].yes = last.cond.yes
          /\ transition[last.p].no = last.cond.no
          /\ transition[last.p].released = 0
    /\ \A b \in Blocks : transition[b] # NULL => transition[b].released <= 1

====
